---- MODULE Spec2Model ----
(***************************************************************************)
(* ethaddrgen (src/src/main.rs): vanity Ethereum address search.           *)
(*                                                                         *)
(* Strings are sequences of ASCII codes, so that the byte-wise ordering    *)
(* of Rust's String (Ord) and the slicing &address[0..n] are the ordering  *)
(* and SubSeq of sequences of integers.                                    *)
(***************************************************************************)
EXTENDS Integers, Sequences, FiniteSets, TLC

\* ------------------------------------------------------------------ bounds

\* Private keys drawn by a worker are the scalars 0..MaxKey.
MaxKey == 1
\* num_cpus::get() returns a value in 1..MaxThreads.
MaxThreads == 2
\* Candidates generated in a round while its slot is still empty.
MaxAttempts == 2
\* Rounds of the streaming loop that are explored.
MaxRounds == 2
\* Hex digits (as values 0..15, taken from SampleDigits) and the lengths of
\* the raw patterns and address heads drawn for the stand-alone contains check.
MaxSampleLen == 2
\* Raw patterns given to the stand-alone PatternVec::new.
MaxSamplePatterns == 4
\* Length of the short strings given to the stand-alone Pattern::parse.
MaxParseLen == 2
\* Raw patterns, valid and invalid, given to PatternVec::new in both modes.
MaxRawPatterns == 3
\* Leading characters of an address that vary in the Regex contains calls.
MaxHeadLen == 3

\* ------------------------------------------------------- program constants

ADDRESS_LENGTH == 40
ADDRESS_BYTES == ADDRESS_LENGTH \div 2
KECCAK_OUTPUT_BYTES == 32
ADDRESS_BYTE_INDEX == KECCAK_OUTPUT_BYTES - ADDRESS_BYTES
\* A secp256k1 secret key is 32 bytes, printed by to_hex_string(.., 64).
SECRET_KEY_BYTES == 32

\* ----------------------------------------------------------------- strings

\* The digits "{:02x}" prints: '0'..'9' are 48..57, 'a'..'f' are 97..102.
HexDigits == <<48, 49, 50, 51, 52, 53, 54, 55, 56, 57, 97, 98, 99, 100, 101, 102>>

\* The character of the hex digit d, 0 <= d <= 15.
Hx(d) == HexDigits[d + 1]

\* The set of the elements of a sequence.
Range(s) == {s[i] : i \in 1..Len(s)}

\* Ordering of two strings: -1 (Less), 0 (Equal), 1 (Greater), byte by byte,
\* a proper prefix being Less (str::cmp).
RECURSIVE StrCmp(_, _)
StrCmp(s, t) ==
  IF s = <<>> /\ t = <<>> THEN 0
  ELSE IF s = <<>> THEN -1
  ELSE IF t = <<>> THEN 1
  ELSE IF Head(s) < Head(t) THEN -1
  ELSE IF Head(s) > Head(t) THEN 1
  ELSE StrCmp(Tail(s), Tail(t))

\* str::starts_with.
starts_with(string, prefix) ==
  /\ Len(prefix) <= Len(string)
  /\ SubSeq(string, 1, Len(prefix)) = prefix

\* char::to_lowercase on ASCII: 'A'..'Z' (65..90) become 'a'..'z'.
LowerChar(c) == IF c >= 65 /\ c <= 90 THEN c + 32 ELSE c

\* to_lowercase leaving every character as it is.
to_lowercase_Identity(s) == s

to_lowercase(s) == [i \in 1..Len(s) |-> LowerChar(s[i])]

\* to_hex_string: every byte printed as two lowercase hex digits ("{:02x}").
to_hex_string(slice) ==
  [i \in 1..(2 * Len(slice)) |->
     IF i % 2 = 1 THEN Hx(slice[(i + 1) \div 2] \div 16) ELSE Hx(slice[i \div 2] % 16)]

\* ---------------------------------------------------- Pattern for String

\* ADDRESS_PATTERN = ^[0-9a-f]{1,40}$ .is_match
ADDRESS_PATTERN_is_match(s) ==
  /\ Len(s) >= 1
  /\ Len(s) <= 40
  /\ \A i \in 1..Len(s) : s[i] \in Range(HexDigits)

\* <String as Pattern>::parse: Ok(lowercased) or Err.
parse(string) ==
  LET lowered == to_lowercase(string)
  IN  IF ~ADDRESS_PATTERN_is_match(lowered)
      THEN [ok |-> FALSE, value |-> <<>>]
      ELSE [ok |-> TRUE, value |-> lowered]

\* <String as Pattern>::matches
matches(pattern, string) == starts_with(string, pattern)

\* Vec::sort (stable) on strings: the element at index i goes to the position
\* that counts the elements ordered before it.
SortedPosition(v, i) ==
  1 + Cardinality({j \in 1..Len(v) :
                     \/ StrCmp(v[j], v[i]) < 0
                     \/ StrCmp(v[j], v[i]) = 0 /\ j < i})

sort(v) == [p \in 1..Len(v) |-> v[CHOOSE i \in 1..Len(v) : SortedPosition(v, i) = p]]

\* dedup removing nothing.
dedup_KeepsAll(v) == v

\* Vec::dedup: of each run of consecutive equal elements the first is kept.
dedup(v) ==
  LET kept == {i \in 1..Len(v) : i = 1 \/ v[i] # v[i - 1]}
  IN  [p \in 1..Cardinality(kept) |->
         v[CHOOSE i \in kept : Cardinality({j \in kept : j <= i}) = p]]

\* <String as Pattern>::postprocess_vec
\* (the sorted vector is a value computed once, then de-duplicated)
postprocess_vec(v) == CHOOSE r \in {dedup(sorted) : sorted \in {sort(v)}} : TRUE

\* The closure handed to binary_search_by: the item against the address's
\* leading substring of the item's length.
ItemCmp(item, addr) == StrCmp(item, SubSeq(addr, 1, Len(item)))

\* slice::binary_search_by(..).is_ok(), as the standard library computes it.
\* Its result on a slice that is not ordered by the comparator is unspecified
\* and differs between the library's two implementations, both modelled (a
\* call takes either):
\*   "halving":    probe the middle of [left, right), return at once on Equal;
\*   "branchless": keep a base and a size, halve the size, compare the final
\*                 base once at the end.
RECURSIVE BSearchHalving(_, _, _, _)
BSearchHalving(v, addr, left, right) ==
  IF left >= right THEN FALSE
  ELSE LET mid == left + ((right - left) \div 2)
           c == ItemCmp(v[mid + 1], addr)
       IN  IF c = 0 THEN TRUE
           ELSE IF c < 0 THEN BSearchHalving(v, addr, mid + 1, right)
           ELSE BSearchHalving(v, addr, left, mid)

RECURSIVE BSearchBranchless(_, _, _, _)
BSearchBranchless(v, addr, base, size) ==
  IF size = 0 THEN FALSE
  ELSE IF size = 1 THEN ItemCmp(v[base + 1], addr) = 0
  ELSE LET half == size \div 2
           mid == base + half
           c == ItemCmp(v[mid + 1], addr)
       IN  BSearchBranchless(v, addr, IF c > 0 THEN base ELSE mid, size - half)

BSearchImpls == {"halving", "branchless"}

binary_search_is_ok(impl, v, addr) ==
  IF impl = "halving" THEN BSearchHalving(v, addr, 0, Len(v))
  ELSE BSearchBranchless(v, addr, 0, Len(v))

\* <String as Pattern>::contains_vec
contains_vec(impl, v, addr) == binary_search_is_ok(impl, v, addr)

\* PatternVec::new, the loop over the raw patterns: a raw pattern is pushed
\* when it is not empty and parses.
IsPushed(raw_pattern) == raw_pattern # <<>> /\ parse(raw_pattern).ok

\* ... and reported as skipped (lines 167-180) when it is not empty and does
\* not parse.
IsSkipped(raw_pattern) == raw_pattern # <<>> /\ ~parse(raw_pattern).ok

\* ParseAll returning at the first raw pattern that does not parse.
ParseAll_StopsAtFirstError(raw) ==
  LET bad == {i \in 1..Len(raw) : IsSkipped(raw[i])}
      upto == IF bad = {} THEN Len(raw) ELSE (CHOOSE i \in bad : \A j \in bad : i <= j) - 1
      pushed == SelectSeq(SubSeq(raw, 1, upto), IsPushed)
  IN  [i \in 1..Len(pushed) |-> parse(pushed[i]).value]

ParseAll(raw) ==
  LET pushed == SelectSeq(raw, IsPushed)
  IN  [i \in 1..Len(pushed) |-> parse(pushed[i]).value]

\* PatternVec::new: the parsed patterns, then postprocess_vec.
PatternVec_new(raw) ==
  CHOOSE r \in {postprocess_vec(parsed) : parsed \in {ParseAll(raw)}} : TRUE

\* PatternVec::contains
contains(impl, v, addr) == contains_vec(impl, v, addr)

\* ----------------------------------------------------- Pattern for Regex
\* The regex crate is not part of the repository. A pattern is modelled for
\* the syntax the drawn raw patterns use: a concatenation of literal
\* characters and of the assertions ^ (start of text) and $ (end of text, as
\* multi_line is false); a '(' is a group that is never closed, which does not
\* compile. A compiled Regex is its pattern string (Regex::as_str).

Caret == 94
Dollar == 36
OpenParen == 40

\* RegexBuilder::new(..).case_insensitive(true)....build()
Regex_parse(string) ==
  IF OpenParen \in Range(string)
  THEN [ok |-> FALSE, value |-> <<>>]
  ELSE [ok |-> TRUE, value |-> string]

IsLiteral(c) == c \notin {Caret, Dollar}

\* The pattern matches the text from the offset start on: an assertion tests
\* the position, a literal the next character (case_insensitive) and moves on.
Regex_matches_at(re, text, start) ==
  \A i \in 1..Len(re) :
    LET pos == start + Cardinality({j \in 1..(i - 1) : IsLiteral(re[j])})
    IN  CASE re[i] = Caret -> pos = 0
          [] re[i] = Dollar -> pos = Len(text)
          [] OTHER -> pos < Len(text) /\ LowerChar(text[pos + 1]) = LowerChar(re[i])

\* Regex::is_match: a match starting at any offset of the text.
Regex_is_match(re, text) == \E start \in 0..Len(text) : Regex_matches_at(re, text, start)

\* <Regex as Pattern>::matches
Regex_matches(re, text) == Regex_is_match(re, text)

\* <Regex as Pattern>::postprocess_vec: nothing is done.
Regex_postprocess_vec(v) == v

\* Regex_contains_vec testing the first pattern only.
Regex_contains_vec_FirstOnly(v, addr) == v # <<>> /\ Regex_matches(v[1], addr)

\* The loop of <Regex as Pattern>::contains_vec from the pattern at index i on.
RECURSIVE Regex_scan(_, _, _)
Regex_scan(v, addr, i) ==
  IF i > Len(v) THEN FALSE
  ELSE IF Regex_matches(v[i], addr) THEN TRUE
  ELSE Regex_scan(v, addr, i + 1)

\* <Regex as Pattern>::contains_vec: linear search, true at the first match.
Regex_contains_vec(v, addr) == Regex_scan(v, addr, 1)

\* PatternVec::<Regex>::new, the loop over the raw patterns.
Regex_IsPushed(raw_pattern) == raw_pattern # <<>> /\ Regex_parse(raw_pattern).ok

Regex_IsSkipped(raw_pattern) == raw_pattern # <<>> /\ ~Regex_parse(raw_pattern).ok

Regex_ParseAll(raw) ==
  LET pushed == SelectSeq(raw, Regex_IsPushed)
  IN  [i \in 1..Len(pushed) |-> Regex_parse(pushed[i]).value]

\* PatternVec::<Regex>::new
Regex_PatternVec_new(raw) == Regex_postprocess_vec(Regex_ParseAll(raw))

\* PatternVec::<Regex>::contains
Regex_contains(v, addr) == Regex_contains_vec(v, addr)

\* ------------------------------------------------------ address generation

Keys == 0..MaxKey

\* The 32 bytes of the secret key k (big-endian), &private_key[..].
PrivateKeyBytes(k) == [i \in 1..SECRET_KEY_BYTES |-> IF i = SECRET_KEY_BYTES THEN k ELSE 0]

\* tiny_keccak::keccak256 of the serialized public key of k. The curve
\* multiplication and the hash are not computed: the digest is a fixed function
\* of the key whose values differ between keys in every byte.
keccak256_of_public_key(k) == [i \in 1..KECCAK_OUTPUT_BYTES |-> (k * 83 + i * 7) % 256]

\* to_hex_string(&keccak[ADDRESS_BYTE_INDEX..], 40)
AddressOf(k) ==
  to_hex_string(SubSeq(keccak256_of_public_key(k), ADDRESS_BYTE_INDEX + 1, KECCAK_OUTPUT_BYTES))

\* ------------------------------------------------------------------- state

VARIABLES
  raw_patterns,            \* read_patterns(): the raw pattern strings
  vec,                     \* PatternVec::new: the local vec when the loop is left (line 184)
  skipped,                 \* PatternVec::new: the raw patterns reported as skipped, in order
  patterns,                \* PatternVec.vec
  address, found, ppc,     \* stand-alone PatternVec::contains call: argument, result, position
  string, parsed,          \* stand-alone Pattern::parse call: argument, result
  thread_count,            \* num_cpus::get()
  stream,                  \* matches.is_present("stream")
  cpc,                     \* main thread: position
  round,                   \* iteration of the outer loop (1-based)
  output,                  \* results printed by the main thread, in order
  wpc,                     \* worker thread -> position
  cand,                    \* worker thread -> (address, private_key) of its iteration
  result,                  \* round -> Arc<Mutex<Option<BruteforceResult>>>
  iterations_this_second,  \* round -> Arc<Mutex<u32>>
  iterations_guard,        \* round -> TRUE while the meter holds the MutexGuard of the counter
  working_threads,         \* round -> Arc<Mutex<usize>>
  sync_buffer,             \* round -> Arc<Mutex<Option<Buffer>>> (the printed number)
  mpc,                     \* round -> position of the meter thread spawned in it
  mbuffer,                 \* round -> the meter's local Buffer
  wgenerated,              \* history: worker -> candidates generated in this round
  wwrites,                 \* history: worker -> writes of the slot in this round
  late_generated,          \* history: worker -> candidates generated in this round while
                           \*          the slot held a value
  generated,               \* history: round -> candidates generated
  matched,                 \* history: round -> candidates that satisfied contains
  increments,              \* history: round -> increments of the counter by workers
  emitted,                 \* history: round -> sum of the samples published
  late_samples,            \* history: round -> samples published while the slot held a value
  late_resets,             \* history: round -> counter resets while the slot held a value
  sample_state             \* history: round -> what sync_buffer holds: "empty", "fresh" (a
                           \*          sample published during the polling loop, not printed
                           \*          yet), "printed", "late" (published after the loop)

pattern_vars == <<raw_patterns, vec, skipped, patterns, address, found, ppc, string, parsed>>
config_vars == <<thread_count, stream>>
main_vars == <<cpc, round, output>>
worker_vars == <<wpc, cand, wgenerated, wwrites, late_generated>>
shared_vars == <<result, iterations_this_second, iterations_guard, working_threads, sync_buffer>>
meter_vars == <<mpc, mbuffer>>
history_vars == <<generated, matched, increments, emitted, late_samples, late_resets, sample_state>>
vars == <<pattern_vars, config_vars, main_vars, worker_vars, shared_vars, meter_vars, history_vars>>

Threads == 1..MaxThreads
Rounds == 1..MaxRounds

\* Option<T>: None is the empty sequence, Some(x) is <<x>>.
None == <<>>
Some(x) == <<x>>
is_some(o) == o # <<>>
unwrap(o) == o[1]

\* The worker threads spawned in a round.
Spawned == 1..thread_count

\* std::process::exit or the return of main ends every thread.
ProcessRunning == cpc \notin {"exit0", "exit1"}

\* ---------------------------------------------------------- initial state

\* The sixteen one-digit patterns, which together match every address.
AllDigitsRaw == [d \in 1..16 |-> <<HexDigits[d]>>]

AllDigitsAndA0Raw == Append(AllDigitsRaw, <<Hx(10), Hx(0)>>)

\* A string of ADDRESS_LENGTH + 1 hex digits.
TooLongRaw == [i \in 1..(ADDRESS_LENGTH + 1) |-> Hx(10)]

\* The command lines explored: no pattern; blank patterns only; patterns that
\* are all rejected ("xy", 41 digits); "AE", "xy" (invalid), "" (blank), "0",
\* "ae" (a duplicate after lowercasing); the sixteen one-digit patterns; and
\* the sixteen one-digit patterns with "a0".
RawPatternChoices ==
  { <<>>,
    << <<>>, <<>> >>,
    << <<120, 121>>, TooLongRaw >>,
    << <<65, 69>>, <<120, 121>>, <<>>, <<Hx(0)>>, <<Hx(10), Hx(14)>> >>,
    AllDigitsRaw,
    AllDigitsAndA0Raw }

\* --stream is explored on one core with the patterns that match every address
\* (every further round multiplies the states of the rounds before it).
StreamExplored == thread_count = 1 /\ raw_patterns = AllDigitsRaw

\* The sixteen one-digit patterns with "a0" are explored on one core.
MixedLengthsExplored == raw_patterns = AllDigitsAndA0Raw => thread_count = 1

NoCandidate == [address |-> <<>>, private_key |-> 0]

\* Before PatternVec::new, and before any stand-alone call.
NoPatternVec ==
  /\ vec = <<>>
  /\ skipped = <<>>
  /\ patterns = <<>>
  /\ address = <<>>
  /\ found = FALSE
  /\ string = <<>>
  /\ parsed = [ok |-> FALSE, value |-> <<>>]

InitThreads ==
  /\ cpc = "new"
  /\ round = 1
  /\ output = <<>>
  /\ wpc = [w \in Threads |-> "unspawned"]
  /\ cand = [w \in Threads |-> NoCandidate]
  /\ wgenerated = [w \in Threads |-> 0]
  /\ wwrites = [w \in Threads |-> 0]
  /\ late_generated = [w \in Threads |-> 0]
  /\ result = [r \in Rounds |-> None]
  /\ iterations_this_second = [r \in Rounds |-> 0]
  /\ iterations_guard = [r \in Rounds |-> FALSE]
  /\ working_threads = [r \in Rounds |-> 0]
  /\ sync_buffer = [r \in Rounds |-> None]
  /\ mpc = [r \in Rounds |-> "unspawned"]
  /\ mbuffer = [r \in Rounds |-> 0]
  /\ generated = [r \in Rounds |-> 0]
  /\ matched = [r \in Rounds |-> 0]
  /\ increments = [r \in Rounds |-> 0]
  /\ emitted = [r \in Rounds |-> 0]
  /\ late_samples = [r \in Rounds |-> 0]
  /\ late_resets = [r \in Rounds |-> 0]
  /\ sample_state = [r \in Rounds |-> "empty"]

Init ==
  /\ raw_patterns \in RawPatternChoices
  /\ NoPatternVec
  /\ ppc = "off"
  /\ thread_count \in 1..MaxThreads
  /\ stream \in BOOLEAN
  /\ stream => StreamExplored
  /\ MixedLengthsExplored
  /\ InitThreads

\* ------------------------------------------------------------------ locks
\* Every shared object is a Mutex. A thread is "main", a worker of the
\* current round or the meter spawned in a round; a lock is the name of the
\* object and its round (0 for the one buffer_writer).

MainThread == <<"main", 0>>
WorkerThread(w) == <<"worker", w>>
MeterThread(r) == <<"meter", r>>

ThreadIds ==
  {MainThread} \cup {WorkerThread(w) : w \in Threads} \cup {MeterThread(r) : r \in Rounds}

ResultLock(r) == <<"result", r>>
IterationsLock(r) == <<"iterations_this_second", r>>
WorkingThreadsLock(r) == <<"working_threads", r>>
SyncBufferLock(r) == <<"sync_buffer", r>>
BufferWriterLock == <<"buffer_writer", 0>>

\* The guards the main thread holds from one step to the next: the guard of
\* sync_buffer through the body of the if-let of lines 418-420, the guard of
\* result from line 431 to the end of the iteration of the outer loop.
MainHolds ==
  (IF cpc = "print_buffer" THEN {SyncBufferLock(round)} ELSE {})
    \cup (IF cpc \in {"emit", "stream_check"} THEN {ResultLock(round)} ELSE {})

\* MeterHolds with the guard of buffer_writer of line 398 bound to a local that
\* lives to the end of the iteration.
MeterHolds_KeepsWriter(r) ==
  IF iterations_guard[r] THEN {IterationsLock(r), BufferWriterLock} ELSE {}

\* The guard the meter holds from one step to the next: iterations_per_second,
\* from line 400 to the end of the iteration. The guards of lines 391, 398 and
\* 407 are dropped in the block or statement that takes them.
MeterHolds(r) == IF iterations_guard[r] THEN {IterationsLock(r)} ELSE {}

\* A worker drops every guard in the block (348-353) or the statement (364,
\* 371, 374) that takes it.
WorkerHolds(w) == {}

Holds(t) ==
  IF t = MainThread THEN MainHolds
  ELSE IF t[1] = "meter" THEN MeterHolds(t[2])
  ELSE WorkerHolds(t[2])

\* The locks the next step of a thread takes.
MainWants ==
  CASE cpc \in {"new", "check_empty", "print_buffer", "emit"} -> {BufferWriterLock}
    [] cpc = "poll" -> {WorkingThreadsLock(round)}
    [] cpc \in {"print", "clear"} -> {SyncBufferLock(round)}
    [] cpc = "read" -> {ResultLock(round)}
    [] OTHER -> {}

WorkerWants(w) ==
  CASE wpc[w] \in {"check", "write"} -> {ResultLock(round)}
    [] wpc[w] = "increment" -> {IterationsLock(round)}
    [] wpc[w] = "exit" -> {WorkingThreadsLock(round)}
    [] OTHER -> {}

MeterWants(r) ==
  CASE mpc[r] = "sleep" -> {ResultLock(r)}
    [] mpc[r] = "sample" -> {BufferWriterLock, IterationsLock(r)}
    [] mpc[r] = "publish" -> {SyncBufferLock(r)}
    [] OTHER -> {}

Wants(t) ==
  IF t = MainThread THEN MainWants
  ELSE IF t[1] = "meter" THEN MeterWants(t[2])
  ELSE WorkerWants(t[2])

\* The locks that are held (a worker holds none from one step to the next).
HeldLocks == MainHolds \cup UNION {MeterHolds(r) : r \in Rounds}

\* lock() returns: no thread holds a lock the step of t takes (a Mutex is not
\* reentrant: the thread itself must not hold it either).
CanLock(t) == Wants(t) \cap HeldLocks = {}

\* ------------------------------------------------------------ main thread

\* line 277: PatternVec::new
C_New ==
  /\ cpc = "new"
  /\ CanLock(MainThread)
  /\ vec' = ParseAll(raw_patterns)
  /\ skipped' = SelectSeq(raw_patterns, IsSkipped)
  /\ patterns' = PatternVec_new(raw_patterns)
  /\ cpc' = "check_empty"
  /\ UNCHANGED <<raw_patterns, address, found, ppc, string, parsed, config_vars, round,
                 output, worker_vars, shared_vars, meter_vars, history_vars>>

\* lines 279-287: no valid pattern, exit(1)
C_ExitEmpty ==
  /\ cpc = "check_empty"
  /\ CanLock(MainThread)
  /\ patterns = <<>>
  /\ cpc' = "exit1"
  /\ UNCHANGED <<pattern_vars, config_vars, round, output, worker_vars, shared_vars,
                 meter_vars, history_vars>>

\* C_Banner without the test of lines 279-287.
C_Banner_NoEmptyCheck ==
  /\ cpc = "check_empty"
  /\ CanLock(MainThread)
  /\ cpc' = "round_start"
  /\ UNCHANGED <<pattern_vars, config_vars, round, output, worker_vars, shared_vars,
                 meter_vars, history_vars>>

\* lines 289-328: the banner, num_cpus::get()
C_Banner ==
  /\ cpc = "check_empty"
  /\ CanLock(MainThread)
  /\ patterns # <<>>
  /\ cpc' = "round_start"
  /\ UNCHANGED <<pattern_vars, config_vars, round, output, worker_vars, shared_vars,
                 meter_vars, history_vars>>

\* lines 331-410: the round's shared objects, its worker threads and its meter
C_Spawn ==
  /\ cpc = "round_start"
  /\ result' = [result EXCEPT ![round] = None]
  /\ iterations_this_second' = [iterations_this_second EXCEPT ![round] = 0]
  /\ iterations_guard' = [iterations_guard EXCEPT ![round] = FALSE]
  /\ working_threads' = [working_threads EXCEPT ![round] = thread_count]
  /\ sync_buffer' = [sync_buffer EXCEPT ![round] = None]
  /\ wpc' = [w \in Threads |-> IF w \in Spawned THEN "check" ELSE "unspawned"]
  /\ cand' = [w \in Threads |-> NoCandidate]
  /\ wgenerated' = [w \in Threads |-> 0]
  /\ wwrites' = [w \in Threads |-> 0]
  /\ late_generated' = [w \in Threads |-> 0]
  /\ mpc' = [mpc EXCEPT ![round] = "sleep"]
  /\ mbuffer' = [mbuffer EXCEPT ![round] = 0]
  /\ cpc' = "poll"
  /\ UNCHANGED <<pattern_vars, config_vars, round, output, history_vars>>

\* C_Poll leaving the loop one worker early (<= 1 for <= 0).
C_Poll_OffByOne ==
  /\ cpc = "poll"
  /\ CanLock(MainThread)
  /\ cpc' = IF working_threads[round] <= 1 THEN "join" ELSE "print"
  /\ UNCHANGED <<pattern_vars, config_vars, round, output, worker_vars, shared_vars,
                 meter_vars, history_vars>>

\* lines 414-416: leave the loop when the countdown is 0
C_Poll ==
  /\ cpc = "poll"
  /\ CanLock(MainThread)
  /\ cpc' = IF working_threads[round] <= 0 THEN "join" ELSE "print"
  /\ UNCHANGED <<pattern_vars, config_vars, round, output, worker_vars, shared_vars,
                 meter_vars, history_vars>>

\* line 418: the guard of sync_buffer is taken and the Option tested; with a
\* Some the guard is kept through the body, with a None it is dropped
C_Print ==
  /\ cpc = "print"
  /\ CanLock(MainThread)
  /\ cpc' = IF is_some(sync_buffer[round]) THEN "print_buffer" ELSE "clear"
  /\ UNCHANGED <<pattern_vars, config_vars, round, output, worker_vars, shared_vars,
                 meter_vars, history_vars>>

\* line 419, 420: buffer_writer.lock().unwrap().print(buffer), then the guard
\* of sync_buffer is dropped
C_PrintBuffer ==
  /\ cpc = "print_buffer"
  /\ CanLock(MainThread)
  /\ sample_state' = [sample_state EXCEPT ![round] = "printed"]
  /\ cpc' = "clear"
  /\ UNCHANGED <<pattern_vars, config_vars, round, output, worker_vars, shared_vars,
                 meter_vars, generated, matched, increments, emitted, late_samples,
                 late_resets>>

\* lines 422-424: clear the sample buffer, sleep 10 ms
C_Clear ==
  /\ cpc = "clear"
  /\ CanLock(MainThread)
  /\ sync_buffer' = [sync_buffer EXCEPT ![round] = None]
  /\ sample_state' = [sample_state EXCEPT ![round] = "empty"]
  /\ cpc' = "poll"
  /\ UNCHANGED <<pattern_vars, config_vars, round, output, worker_vars, result,
                 iterations_this_second, iterations_guard, working_threads,
                 meter_vars, generated, matched, increments, emitted, late_samples,
                 late_resets>>

\* lines 427-429: join every worker thread; join() of a thread that panicked
\* is an Err, and unwrap() of it panics in the main thread
C_Join ==
  /\ cpc = "join"
  /\ \A w \in Spawned : wpc[w] \in {"done", "panicked"}
  /\ cpc' = IF \E w \in Spawned : wpc[w] = "panicked" THEN "panicked" ELSE "read"
  /\ UNCHANGED <<pattern_vars, config_vars, round, output, worker_vars, shared_vars,
                 meter_vars, history_vars>>

\* lines 431-432: the guard of result is taken and kept, result.as_ref().unwrap()
\* (a panic when the slot is None)
C_Read ==
  /\ cpc = "read"
  /\ CanLock(MainThread)
  /\ cpc' = IF is_some(result[round]) THEN "emit" ELSE "panicked"
  /\ UNCHANGED <<pattern_vars, config_vars, round, output, worker_vars, shared_vars,
                 meter_vars, history_vars>>

\* lines 434-469: the result is printed through buffer_writer
C_Emit ==
  /\ cpc = "emit"
  /\ CanLock(MainThread)
  /\ output' = Append(output, unwrap(result[round]))
  /\ cpc' = "stream_check"
  /\ UNCHANGED <<pattern_vars, config_vars, round, worker_vars, shared_vars,
                 meter_vars, history_vars>>

\* lines 471-473: without --stream the loop is left and main returns
C_Exit ==
  /\ cpc = "stream_check"
  /\ ~stream
  /\ cpc' = "exit0"
  /\ UNCHANGED <<pattern_vars, config_vars, round, output, worker_vars, shared_vars,
                 meter_vars, history_vars>>

\* lines 471-474, 330: with --stream the outer loop starts the next round;
\* the guard of result is dropped, the joined worker threads of the finished
\* round are gone
C_NextRound ==
  /\ cpc = "stream_check"
  /\ stream
  /\ round < MaxRounds
  /\ round' = round + 1
  /\ wpc' = [w \in Threads |-> "unspawned"]
  /\ cand' = [w \in Threads |-> NoCandidate]
  /\ wgenerated' = [w \in Threads |-> 0]
  /\ wwrites' = [w \in Threads |-> 0]
  /\ late_generated' = [w \in Threads |-> 0]
  /\ cpc' = "round_start"
  /\ UNCHANGED <<pattern_vars, config_vars, output, shared_vars, meter_vars, history_vars>>

\* ---------------------------------------------------------- worker threads

\* W_Check without the test of the slot: the worker never stops at its loop head.
W_Check_IgnoresSlot(w) ==
  /\ ProcessRunning
  /\ wpc[w] = "check"
  /\ CanLock(WorkerThread(w))
  /\ wpc' = [wpc EXCEPT ![w] = "generate"]
  /\ UNCHANGED <<pattern_vars, config_vars, main_vars, cand, wgenerated, wwrites,
                 late_generated, shared_vars, meter_vars, history_vars>>

\* W_Check decrementing the countdown at its break, before the decrement of
\* line 374.
W_Check_DecrementsAtBreak(w) ==
  /\ ProcessRunning
  /\ wpc[w] = "check"
  /\ wpc' = [wpc EXCEPT ![w] = IF is_some(result[round]) THEN "exit" ELSE "generate"]
  /\ working_threads' =
       [working_threads EXCEPT ![round] = IF is_some(result[round]) THEN @ - 1 ELSE @]
  /\ UNCHANGED <<pattern_vars, config_vars, main_vars, cand, wgenerated, wwrites,
                 late_generated, result, iterations_this_second, iterations_guard,
                 sync_buffer, meter_vars, history_vars>>

\* lines 347-353: leave the loop when the slot holds a value
W_Check(w) ==
  /\ ProcessRunning
  /\ wpc[w] = "check"
  /\ CanLock(WorkerThread(w))
  /\ wpc' = [wpc EXCEPT ![w] = IF is_some(result[round]) THEN "exit" ELSE "generate"]
  /\ UNCHANGED <<pattern_vars, config_vars, main_vars, cand, wgenerated, wwrites,
                 late_generated, shared_vars, meter_vars, history_vars>>

\* W_Generate taking the write branch whatever contains returns.
W_Generate_WritesAnyCandidate(w) ==
  /\ ProcessRunning
  /\ wpc[w] = "generate"
  /\ generated[round] < MaxAttempts \/ is_some(result[round])
  /\ \E k \in Keys, impl \in BSearchImpls : \E addr \in {AddressOf(k)} :
       LET hit == contains(impl, patterns, addr)
       IN  /\ cand' = [cand EXCEPT ![w] = [address |-> addr, private_key |-> k]]
           /\ wpc' = [wpc EXCEPT ![w] = "write"]
           /\ matched' = [matched EXCEPT ![round] = @ + (IF hit THEN 1 ELSE 0)]
  /\ wgenerated' = [wgenerated EXCEPT ![w] = @ + 1]
  /\ late_generated' =
       [late_generated EXCEPT ![w] = @ + (IF is_some(result[round]) THEN 1 ELSE 0)]
  /\ generated' = [generated EXCEPT ![round] = @ + 1]
  /\ UNCHANGED <<pattern_vars, config_vars, main_vars, wwrites, shared_vars, meter_vars,
                 increments, emitted, late_samples, late_resets, sample_state>>

\* W_Generate looking at the slot again: when it holds a value the worker
\* leaves its loop in the middle of the iteration, without a candidate.
W_Generate_Preempted(w) ==
  /\ ProcessRunning
  /\ wpc[w] = "generate"
  /\ \/ /\ is_some(result[round])
        /\ wpc' = [wpc EXCEPT ![w] = "exit"]
        /\ UNCHANGED <<cand, wgenerated, late_generated, generated, matched>>
     \/ /\ ~is_some(result[round])
        /\ generated[round] < MaxAttempts
        /\ \E k \in Keys, impl \in BSearchImpls : \E addr \in {AddressOf(k)} :
             LET hit == contains(impl, patterns, addr)
             IN  /\ cand' = [cand EXCEPT ![w] = [address |-> addr, private_key |-> k]]
                 /\ wpc' = [wpc EXCEPT ![w] = IF hit THEN "write" ELSE "increment"]
                 /\ matched' = [matched EXCEPT ![round] = @ + (IF hit THEN 1 ELSE 0)]
        /\ wgenerated' = [wgenerated EXCEPT ![w] = @ + 1]
        /\ late_generated' = late_generated
        /\ generated' = [generated EXCEPT ![round] = @ + 1]
  /\ UNCHANGED <<pattern_vars, config_vars, main_vars, wwrites, shared_vars, meter_vars,
                 increments, emitted, late_samples, late_resets, sample_state>>

\* lines 355-363: a fresh keypair, its address, patterns.contains(&address)
W_Generate(w) ==
  /\ ProcessRunning
  /\ wpc[w] = "generate"
  /\ generated[round] < MaxAttempts \/ is_some(result[round])
  /\ \E k \in Keys, impl \in BSearchImpls : \E addr \in {AddressOf(k)} :
       LET hit == contains(impl, patterns, addr)
       IN  /\ cand' = [cand EXCEPT ![w] = [address |-> addr, private_key |-> k]]
           /\ wpc' = [wpc EXCEPT ![w] = IF hit THEN "write" ELSE "increment"]
           /\ matched' = [matched EXCEPT ![round] = @ + (IF hit THEN 1 ELSE 0)]
  /\ wgenerated' = [wgenerated EXCEPT ![w] = @ + 1]
  /\ late_generated' =
       [late_generated EXCEPT ![w] = @ + (IF is_some(result[round]) THEN 1 ELSE 0)]
  /\ generated' = [generated EXCEPT ![round] = @ + 1]
  /\ UNCHANGED <<pattern_vars, config_vars, main_vars, wwrites, shared_vars, meter_vars,
                 increments, emitted, late_samples, late_resets, sample_state>>

\* lines 355-358: OsRng::new() or generate_keypair() is an Err and expect()
\* panics: the thread unwinds out of the closure, holding no lock
W_Fail(w) ==
  /\ ProcessRunning
  /\ wpc[w] = "generate"
  /\ wpc' = [wpc EXCEPT ![w] = "panicked"]
  /\ UNCHANGED <<pattern_vars, config_vars, main_vars, cand, wgenerated, wwrites,
                 late_generated, shared_vars, meter_vars, history_vars>>

\* lines 364-368: the slot is assigned, whatever it holds, then break
W_Write(w) ==
  /\ ProcessRunning
  /\ wpc[w] = "write"
  /\ CanLock(WorkerThread(w))
  /\ result' = [result EXCEPT ![round] =
                  Some([address |-> cand[w].address,
                        private_key |-> to_hex_string(PrivateKeyBytes(cand[w].private_key))])]
  /\ wwrites' = [wwrites EXCEPT ![w] = @ + 1]
  /\ wpc' = [wpc EXCEPT ![w] = "exit"]
  /\ UNCHANGED <<pattern_vars, config_vars, main_vars, cand, wgenerated, late_generated,
                 iterations_this_second, iterations_guard, working_threads, sync_buffer,
                 meter_vars, history_vars>>

\* W_Increment adding to a copy of the counter: the shared value stays.
W_Increment_Lost(w) ==
  /\ ProcessRunning
  /\ wpc[w] = "increment"
  /\ ~iterations_guard[round]
  /\ increments' = [increments EXCEPT ![round] = @ + 1]
  /\ wpc' = [wpc EXCEPT ![w] = "check"]
  /\ UNCHANGED <<pattern_vars, config_vars, main_vars, cand, wgenerated, wwrites,
                 late_generated, shared_vars, meter_vars,
                 generated, matched, emitted, late_samples, late_resets, sample_state>>

\* line 371: *iterations_this_second.lock().unwrap() += 1. The counter is a
\* u32 zeroed every second; its values here stay below MaxAttempts, far from
\* 2^32, so the addition is the integers'.
W_Increment(w) ==
  /\ ProcessRunning
  /\ wpc[w] = "increment"
  /\ ~iterations_guard[round]
  /\ CanLock(WorkerThread(w))
  /\ iterations_this_second' = [iterations_this_second EXCEPT ![round] = @ + 1]
  /\ increments' = [increments EXCEPT ![round] = @ + 1]
  /\ wpc' = [wpc EXCEPT ![w] = "check"]
  /\ UNCHANGED <<pattern_vars, config_vars, main_vars, cand, wgenerated, wwrites,
                 late_generated, result, iterations_guard, working_threads, sync_buffer,
                 meter_vars, generated, matched, emitted, late_samples, late_resets,
                 sample_state>>

\* W_Exit without the decrement of the countdown.
W_Exit_NoDecrement(w) ==
  /\ ProcessRunning
  /\ wpc[w] = "exit"
  /\ wpc' = [wpc EXCEPT ![w] = "done"]
  /\ UNCHANGED <<pattern_vars, config_vars, main_vars, cand, wgenerated, wwrites,
                 late_generated, shared_vars, meter_vars, history_vars>>

\* line 374: *working_threads.lock().unwrap() -= 1
W_Exit(w) ==
  /\ ProcessRunning
  /\ wpc[w] = "exit"
  /\ CanLock(WorkerThread(w))
  /\ working_threads' = [working_threads EXCEPT ![round] = @ - 1]
  /\ wpc' = [wpc EXCEPT ![w] = "done"]
  /\ UNCHANGED <<pattern_vars, config_vars, main_vars, cand, wgenerated, wwrites,
                 late_generated, result, iterations_this_second, iterations_guard,
                 sync_buffer, meter_vars, history_vars>>

\* ------------------------------------------------------------ meter thread
\* The meter of round r holds clones of the Arcs of round r and outlives it.

\* M_Check without the test of the slot: the meter never stops.
M_Check_IgnoresSlot(r) ==
  /\ ProcessRunning
  /\ mpc[r] = "sleep"
  /\ CanLock(MeterThread(r))
  /\ mpc' = [mpc EXCEPT ![r] = "sample"]
  /\ UNCHANGED <<pattern_vars, config_vars, main_vars, worker_vars, shared_vars, mbuffer,
                 history_vars>>

\* lines 388-396: sleep a second, stop when the slot holds a value
M_Check(r) ==
  /\ ProcessRunning
  /\ mpc[r] = "sleep"
  /\ CanLock(MeterThread(r))
  /\ mpc' = [mpc EXCEPT ![r] = IF is_some(result[r]) THEN "done" ELSE "sample"]
  /\ UNCHANGED <<pattern_vars, config_vars, main_vars, worker_vars, shared_vars, mbuffer,
                 history_vars>>

\* M_Sample reading the counter through a temporary guard, dropped at once.
M_Sample_GuardDropped(r) ==
  /\ ProcessRunning
  /\ mpc[r] = "sample"
  /\ ~iterations_guard[r]
  /\ mbuffer' = [mbuffer EXCEPT ![r] = iterations_this_second[r]]
  /\ mpc' = [mpc EXCEPT ![r] = "publish"]
  /\ UNCHANGED <<pattern_vars, config_vars, main_vars, worker_vars, shared_vars,
                 history_vars>>

\* M_Sample taking the guard of the counter of the round the main thread is
\* in, not of the round the meter was spawned in.
M_Sample_CurrentRound(r) ==
  /\ ProcessRunning
  /\ mpc[r] = "sample"
  /\ ~iterations_guard[round]
  /\ iterations_guard' = [iterations_guard EXCEPT ![round] = TRUE]
  /\ mbuffer' = [mbuffer EXCEPT ![r] = iterations_this_second[round]]
  /\ mpc' = [mpc EXCEPT ![r] = "publish"]
  /\ UNCHANGED <<pattern_vars, config_vars, main_vars, worker_vars, result,
                 iterations_this_second, working_threads, sync_buffer, history_vars>>

\* lines 398-406: a Buffer, the guard of the counter taken and kept, the
\* counter's value written into the Buffer
M_Sample(r) ==
  /\ ProcessRunning
  /\ mpc[r] = "sample"
  /\ ~iterations_guard[r]
  /\ CanLock(MeterThread(r))
  /\ iterations_guard' = [iterations_guard EXCEPT ![r] = TRUE]
  /\ mbuffer' = [mbuffer EXCEPT ![r] = iterations_this_second[r]]
  /\ mpc' = [mpc EXCEPT ![r] = "publish"]
  /\ UNCHANGED <<pattern_vars, config_vars, main_vars, worker_vars, result,
                 iterations_this_second, working_threads, sync_buffer, history_vars>>

\* line 407: *sync_buffer.lock().unwrap() = Some(buffer)
M_Publish(r) ==
  /\ ProcessRunning
  /\ mpc[r] = "publish"
  /\ CanLock(MeterThread(r))
  /\ sync_buffer' = [sync_buffer EXCEPT ![r] = Some(mbuffer[r])]
  /\ emitted' = [emitted EXCEPT ![r] = @ + mbuffer[r]]
  /\ late_samples' = [late_samples EXCEPT ![r] = @ + (IF is_some(result[r]) THEN 1 ELSE 0)]
  /\ sample_state' =
       [sample_state EXCEPT ![r] =
          IF r = round /\ cpc \in {"poll", "print", "clear"} THEN "fresh" ELSE "late"]
  /\ mpc' = [mpc EXCEPT ![r] = "reset"]
  /\ UNCHANGED <<pattern_vars, config_vars, main_vars, worker_vars, result,
                 iterations_this_second, iterations_guard, working_threads, mbuffer,
                 generated, matched, increments, late_resets>>

\* line 408 and the end of the iteration: the counter is zeroed and its guard
\* dropped
M_Reset(r) ==
  /\ ProcessRunning
  /\ mpc[r] = "reset"
  /\ iterations_this_second' = [iterations_this_second EXCEPT ![r] = 0]
  /\ iterations_guard' = [iterations_guard EXCEPT ![r] = FALSE]
  /\ late_resets' = [late_resets EXCEPT ![r] = @ + (IF is_some(result[r]) THEN 1 ELSE 0)]
  /\ mpc' = [mpc EXCEPT ![r] = "sleep"]
  /\ UNCHANGED <<pattern_vars, config_vars, main_vars, worker_vars, result,
                 working_threads, sync_buffer, mbuffer,
                 generated, matched, increments, emitted, late_samples, sample_state>>

\* ----------------------------------------------------------- specifications

Controller ==
  \/ C_New
  \/ C_ExitEmpty
  \/ C_Banner
  \/ C_Spawn
  \/ C_Poll
  \/ C_Print
  \/ C_PrintBuffer
  \/ C_Clear
  \/ C_Join
  \/ C_Read
  \/ C_Emit
  \/ C_Exit
  \/ C_NextRound

WorkerStep(w) ==
  \/ W_Check(w)
  \/ W_Generate(w)
  \/ W_Write(w)
  \/ W_Increment(w)
  \/ W_Exit(w)

MeterStep(r) ==
  \/ M_Check(r)
  \/ M_Sample(r)
  \/ M_Publish(r)
  \/ M_Reset(r)

\* The program without failures of the randomness source or of the keypair
\* derivation.
NextNoFail ==
  \/ Controller
  \/ \E w \in Threads : WorkerStep(w)
  \/ \E r \in Rounds : MeterStep(r)

Next ==
  \/ NextNoFail
  \/ \E w \in Threads : W_Fail(w)

Spec == Init /\ [][Next]_vars

\* Fair scheduling of the main thread and of every worker thread, no failure.
\* The meter is left unfair: no thread waits for it except for the counter's
\* guard, which it holds only between M_Sample and M_Reset.
FairSpec ==
  /\ Init
  /\ [][NextNoFail]_vars
  /\ WF_vars(Controller)
  /\ \A w \in Threads : WF_vars(WorkerStep(w))
  /\ \A r \in Rounds : WF_vars(M_Publish(r) \/ M_Reset(r))

\* ------------------------------------------- PatternVec::contains, alone
\* PatternVec::new and PatternVec::contains applied to drawn inputs.

\* The hex digits the drawn strings are made of: '0', 'a', 'b', 'c'.
SampleDigits == {Hx(0), Hx(10), Hx(11), Hx(12)}

\* The strings of length n over SampleDigits.
SampleStringsOfLen(n) == [1..n -> SampleDigits]

SampleStrings == UNION {SampleStringsOfLen(n) : n \in 1..MaxSampleLen}

\* Raw patterns: up to MaxSamplePatterns distinct strings, given in descending
\* order (the reverse of what sort() leaves).
SampleRawPatterns ==
  {raw \in UNION {[1..n -> SampleStrings] : n \in 0..MaxSamplePatterns} :
     \A i \in 1..(Len(raw) - 1) : StrCmp(raw[i], raw[i + 1]) > 0}

\* Addresses: every head of MaxSampleLen sample digits, filled up with '0' to
\* the ADDRESS_LENGTH characters of an address.
SampleAddresses ==
  {head \o [i \in 1..(ADDRESS_LENGTH - MaxSampleLen) |-> Hx(0)] :
     head \in SampleStringsOfLen(MaxSampleLen)}

InitContains ==
  /\ raw_patterns \in SampleRawPatterns
  /\ NoPatternVec
  /\ ppc = "raw"
  /\ thread_count = 1
  /\ stream = FALSE
  /\ InitThreads

\* PatternVec::new(raw_patterns)
PV_New ==
  /\ ppc = "raw"
  /\ vec' = ParseAll(raw_patterns)
  /\ skipped' = SelectSeq(raw_patterns, IsSkipped)
  /\ patterns' = PatternVec_new(raw_patterns)
  /\ ppc' = "built"
  /\ UNCHANGED <<raw_patterns, address, found, string, parsed, config_vars, main_vars,
                 worker_vars, shared_vars, meter_vars, history_vars>>

\* patterns.contains(&a)
PV_Contains ==
  /\ ppc = "built"
  /\ \E a \in SampleAddresses, impl \in BSearchImpls :
       /\ address' = a
       /\ found' = contains(impl, patterns, a)
  /\ ppc' = "called"
  /\ UNCHANGED <<raw_patterns, vec, skipped, patterns, string, parsed, config_vars,
                 main_vars, worker_vars, shared_vars, meter_vars, history_vars>>

NextContains ==
  \/ PV_New
  \/ PV_Contains

SpecContains == InitContains /\ [][NextContains]_vars

\* ------------------------------------------------------ Pattern::parse, alone

\* Characters at and around the borders of [0-9], [A-F] and [a-f]:
\* '/', '0', '9', ':', '@', 'A', 'F', 'G', '`', 'a', 'f', 'g'.
ParseChars == {47, 48, 57, 58, 64, 65, 70, 71, 96, 97, 102, 103}

\* "xyz", "abc", "ABC"
Str_xyz == <<120, 121, 122>>
Str_abc == <<97, 98, 99>>
Str_ABC == <<65, 66, 67>>

\* Strings of ADDRESS_LENGTH characters: digits in both cases, and digits
\* with one 'g' at the end.
LongMixedCase == [i \in 1..ADDRESS_LENGTH |-> IF i % 2 = 0 THEN 70 ELSE 97]
LongInvalid == [i \in 1..ADDRESS_LENGTH |-> IF i = ADDRESS_LENGTH THEN 103 ELSE 97]

\* The arguments of parse: every string of up to MaxParseLen of ParseChars,
\* the three named strings and strings of 40 and 41 characters.
ParseStrings ==
  UNION {[1..n -> ParseChars] : n \in 0..MaxParseLen}
    \cup {Str_xyz, Str_abc, Str_ABC, LongMixedCase, LongInvalid, TooLongRaw}

InitParse ==
  /\ raw_patterns = <<>>
  /\ vec = <<>>
  /\ skipped = <<>>
  /\ patterns = <<>>
  /\ address = <<>>
  /\ found = FALSE
  /\ string \in ParseStrings
  /\ parsed = [ok |-> FALSE, value |-> <<>>]
  /\ ppc = "string"
  /\ thread_count = 1
  /\ stream = FALSE
  /\ InitThreads

\* <String as Pattern>::parse(string)
P_Parse ==
  /\ ppc = "string"
  /\ parsed' = parse(string)
  /\ ppc' = "parsed"
  /\ UNCHANGED <<raw_patterns, vec, skipped, patterns, address, found, string, config_vars,
                 main_vars, worker_vars, shared_vars, meter_vars, history_vars>>

NextParse == P_Parse

SpecParse == InitParse /\ [][NextParse]_vars

\* ---------------------------------------- PatternVec::new in both modes
\* PatternVec::<String>::new, PatternVec::<Regex>::new and the Regex contains
\* applied to raw patterns of which some are blank or do not parse.

\* "", "ab", "abc", "ABC", "xyz", "^b", "b$" and "(".
RawSampleStrings ==
  { <<>>, <<97, 98>>, Str_abc, Str_ABC, Str_xyz,
    <<Caret, 98>>, <<98, Dollar>>, <<OpenParen>> }

RawSampleSequences == UNION {[1..n -> RawSampleStrings] : n \in 0..MaxRawPatterns}

\* Addresses: MaxHeadLen leading characters 'a' or 'b', then '0', and a last
\* character 'a' or 'b'.
RegexSampleAddresses ==
  {[i \in 1..ADDRESS_LENGTH |->
      IF i <= MaxHeadLen THEN head[i] ELSE IF i = ADDRESS_LENGTH THEN last ELSE Hx(0)] :
     head \in [1..MaxHeadLen -> {Hx(10), Hx(11)}], last \in {Hx(10), Hx(11)}}

InitPatterns ==
  /\ raw_patterns \in RawSampleSequences
  /\ NoPatternVec
  /\ ppc = "raw"
  /\ thread_count = 1
  /\ stream = FALSE
  /\ InitThreads

\* PatternVec::<Regex>::new(raw_patterns)
PV_NewRegex ==
  /\ ppc = "raw"
  /\ vec' = Regex_ParseAll(raw_patterns)
  /\ skipped' = SelectSeq(raw_patterns, Regex_IsSkipped)
  /\ patterns' = Regex_PatternVec_new(raw_patterns)
  /\ ppc' = "built_regex"
  /\ UNCHANGED <<raw_patterns, address, found, string, parsed, config_vars, main_vars,
                 worker_vars, shared_vars, meter_vars, history_vars>>

\* patterns.contains(&a), Regex patterns
PV_ContainsRegex ==
  /\ ppc = "built_regex"
  /\ \E a \in RegexSampleAddresses :
       /\ address' = a
       /\ found' = Regex_contains(patterns, a)
  /\ ppc' = "called_regex"
  /\ UNCHANGED <<raw_patterns, vec, skipped, patterns, string, parsed, config_vars,
                 main_vars, worker_vars, shared_vars, meter_vars, history_vars>>

NextPatterns ==
  \/ PV_New
  \/ PV_NewRegex
  \/ PV_ContainsRegex

SpecPatterns == InitPatterns /\ [][NextPatterns]_vars

\* ------------------------------------------------------------------ claims

\* Some pattern of the set is a prefix of the address.
StartsWithSome(v, addr) == \E i \in 1..Len(v) : matches(v[i], addr)

\* C1: for every post-processed Prefix pattern set and every address,
\* contains returns true if and only if the address starts with at least one
\* pattern of the set, also when one pattern is a prefix of another.
C1_ContainsIffStartsWithSome ==
  ppc = "called" => (found <=> StartsWithSome(patterns, address))

\* C1 happens: a set in which one pattern is a prefix of another, searched for
\* an address that starts with the shorter one only.
C1_PrefixOfAnotherSearched ==
  /\ ppc = "called"
  /\ \E i, j \in 1..Len(patterns) : i # j /\ starts_with(patterns[j], patterns[i])
  /\ StartsWithSome(patterns, address)

\* Writes of the slot by the workers of the current round.
RECURSIVE SumOver(_, _)
SumOver(f, S) ==
  IF S = {} THEN 0
  ELSE LET x == CHOOSE y \in S : TRUE IN f[x] + SumOver(f, S \ {x})

TotalWrites == SumOver(wwrites, Threads)

\* Workers of round r that generated a candidate that did not match and have
\* not yet added it to the counter.
PendingIncrements(r) ==
  IF r = round THEN Cardinality({w \in Threads : wpc[w] = "increment"}) ELSE 0

\* The meter of round r is outside its read-and-reset of the counter.
MeterBetweenSamples(r) == mpc[r] \notin {"publish", "reset"}

\* The main thread is in the polling loop of lines 412-425.
MainPolling == cpc \in {"poll", "print", "print_buffer", "clear"}

\* C2 (as claimed): in every round the slot is written at most once: once it
\* holds a value no other worker of the round writes it again.
C2_SlotWrittenAtMostOnce == TotalWrites <= 1

\* C2 (amended): each worker writes the slot at most once in a round, a slot
\* that was written holds a value, and once the slot holds a value no worker
\* passes its loop-head check any more: only the workers already between
\* their check and their write can still overwrite it.
C2_OnlyWorkersPastTheCheckOverwrite ==
  /\ [](\A w \in Threads : wwrites[w] <= 1)
  /\ [](TotalWrites >= 1 => is_some(result[round]))
  /\ [][\A w \in Threads :
          (is_some(result[round]) /\ wpc[w] = "check") => wpc'[w] # "generate"]_vars

C2_TwoWorkersWrote == wwrites[1] = 1 /\ wwrites[2] = 1

\* A result is a match of the pattern set together with the key it was
\* derived from.
ValidResult(res) ==
  /\ StartsWithSome(patterns, res.address)
  /\ \E impl \in BSearchImpls : contains(impl, patterns, res.address)
  /\ \E k \in Keys :
       /\ res.address = AddressOf(k)
       /\ res.private_key = to_hex_string(PrivateKeyBytes(k))

\* C3: the slot is empty or holds an address that satisfies contains with the
\* private key generated in the same iteration, also after several workers
\* wrote it; so is every result the main thread prints.
C3_ResultIsAMatchWithItsKey ==
  /\ \A r \in Rounds : is_some(result[r]) => ValidResult(unwrap(result[r]))
  /\ \A i \in 1..Len(output) : ValidResult(output[i])

C3_PrintedAfterTwoWrites == TotalWrites = 2 /\ Len(output) = 1

\* C4: the main thread leaves its polling loop and reads the slot only after
\* the countdown reached zero, that is after every worker of the round ran its
\* exit decrement, and the slot it reads holds a value.
C4_ReadAfterCountdownZero ==
  /\ cpc \in {"join", "read", "emit", "stream_check", "exit0"} =>
       /\ working_threads[round] = 0
       /\ \A w \in Spawned : wpc[w] = "done"
  /\ cpc = "read" => is_some(result[round])
  /\ cpc # "panicked"

C4_AboutToRead == cpc = "read" /\ thread_count = 2 /\ is_some(result[round])

\* C5: under fair scheduling and without worker failure, once the slot of a
\* round holds a value the countdown of the round reaches zero and the main
\* thread prints the result that the slot holds.
C5_PopulatedLeadsToCompleted ==
  \A r \in Rounds :
    is_some(result[r]) ~>
      /\ working_threads[r] = 0
      /\ Len(output) >= r
      /\ output[r] = unwrap(result[r])

C5_Completed == cpc = "stream_check" /\ thread_count = 2 /\ generated[1] > MaxAttempts

\* C6: a failure of the randomness source or of the keypair derivation in a
\* worker aborts the process: the main thread does not stay in its polling
\* loop beside a failed worker.
C6_WorkerFailureAbortsProcess ==
  (\E w \in Threads : wpc[w] = "panicked") => ~MainPolling

\* C7 (as claimed): the counter is incremented once for every candidate
\* generated, matching or not: samples published + counter (+ the increments
\* workers are about to make) = candidates generated.
C7_EveryCandidateCounted ==
  \A r \in Rounds :
    MeterBetweenSamples(r) =>
      emitted[r] + iterations_this_second[r] + PendingIncrements(r) = generated[r]

\* C7 (amended): the counter is incremented once for every candidate that does
\* not match; a matching candidate is not counted.
C7_EveryNonMatchingCandidateCounted ==
  \A r \in Rounds :
    MeterBetweenSamples(r) =>
      emitted[r] + iterations_this_second[r] + PendingIncrements(r)
        = generated[r] - matched[r]

C7_CountedAndMatched ==
  \E r \in Rounds : MeterBetweenSamples(r) /\ matched[r] >= 1 /\ increments[r] >= 1

\* C8: a sample reads and resets the counter atomically with respect to the
\* workers' increments: samples published + counter = increments performed.
C8_NoIncrementLostOrCountedTwice ==
  \A r \in Rounds :
    MeterBetweenSamples(r) => emitted[r] + iterations_this_second[r] = increments[r]

C8_SampledAndResidual ==
  \E r \in Rounds :
    /\ mpc[r] = "sleep"
    /\ emitted[r] >= 1
    /\ iterations_this_second[r] >= 1

\* C9 (as claimed): the meter never publishes a sample or resets the counter
\* while the slot of its round holds a value.
C9_NoSampleOnceSlotPopulated ==
  \A r \in Rounds : late_samples[r] = 0 /\ late_resets[r] = 0

\* C9 (amended): the meter tests the slot once per iteration, before it
\* samples: after the slot is populated it publishes at most one more sample
\* and resets the counter at most once more (the iteration already past the
\* test), and it does not pass the test again.
C9_AtMostOneSampleOnceSlotPopulated ==
  /\ [](\A r \in Rounds : late_samples[r] <= 1 /\ late_resets[r] <= 1)
  /\ [][\A r \in Rounds :
          (is_some(result[r]) /\ mpc[r] = "sleep") => mpc'[r] # "sample"]_vars

C9_LateSampleThenStopped ==
  \E r \in Rounds : late_samples[r] = 1 /\ late_resets[r] = 1 /\ mpc[r] = "done"

\* Every address starts with a pattern of the set: each of the sixteen hex
\* digits is a pattern.
MatchesEveryAddress(v) ==
  \A d \in 1..16 : \E i \in 1..Len(v) : v[i] = <<HexDigits[d]>>

\* C10: with a pattern set that matches every address each worker generates
\* at most one candidate, at most thread_count candidates are generated in
\* the round, and the counter is never incremented.
C10_AlwaysMatchingRoundIsBounded ==
  MatchesEveryAddress(patterns) =>
    /\ \A w \in Threads : wgenerated[w] <= 1
    /\ generated[round] <= thread_count
    /\ increments[round] = 0
    /\ iterations_this_second[round] = 0

\* The step of the main thread that sets up a round (C_Spawn).
RoundSetUp == cpc = "round_start" /\ cpc' = "poll"

\* C11: a round starts with an empty slot, a zero counter (unlocked) and a
\* countdown equal to the worker count, over the pattern set built once; the
\* slot and the countdown of a round are written only by the workers of that
\* round while it is the current one, its counter only by them and, with its
\* guard, by the meter spawned in that round, so that a thread of an earlier
\* round never touches them; with --stream a completed round is followed by
\* the next one, without it the process runs round 1 only and then ends.
C11_RoundsShareNothingButPatterns ==
  /\ [][RoundSetUp =>
          /\ round' = round
          /\ result'[round] = None
          /\ iterations_this_second'[round] = 0
          /\ ~iterations_guard'[round]
          /\ working_threads'[round] = thread_count]_vars
  /\ [][cpc # "new" => patterns' = patterns]_vars
  /\ [][\A r \in Rounds :
          /\ result'[r] # result[r] =>
               r = round /\ (RoundSetUp \/ \E w \in Spawned : wpc[w] = "write" /\ wpc'[w] = "exit")
          /\ working_threads'[r] # working_threads[r] =>
               r = round /\ (RoundSetUp \/ \E w \in Spawned : wpc[w] = "exit" /\ wpc'[w] = "done")
          /\ iterations_this_second'[r] # iterations_this_second[r] =>
               \/ r = round /\ RoundSetUp
               \/ r = round /\ \E w \in Spawned : wpc[w] = "increment" /\ wpc'[w] = "check"
               \/ mpc[r] = "reset" /\ mpc'[r] = "sleep"
          /\ iterations_guard'[r] # iterations_guard[r] =>
               \/ mpc[r] = "sample" /\ mpc'[r] = "publish"
               \/ mpc[r] = "reset" /\ mpc'[r] = "sleep"]_vars
  /\ [][(cpc = "stream_check" /\ cpc' # cpc) =>
          IF stream THEN cpc' = "round_start" /\ round' = round + 1
          ELSE cpc' = "exit0" /\ round' = 1]_vars
  /\ [][~stream => round' = 1 /\ (cpc = "exit0" => cpc' = "exit0")]_vars

\* C11 happens: the second round is running while the meter of the first
\* round, not joined, is still inside its iteration.
C11_OldMeterBesideNewRound ==
  /\ stream
  /\ round = 2
  /\ cpc = "poll"
  /\ mpc[1] \in {"sample", "publish", "reset"}
  /\ mpc[2] = "sleep"

\* No thread was spawned and no round set up.
NothingStarted ==
  /\ \A w \in Threads : wpc[w] = "unspawned"
  /\ \A r \in Rounds : mpc[r] = "unspawned"
  /\ round = 1
  /\ output = <<>>

\* C12: the pattern set is empty exactly when no raw pattern is non-empty and
\* parses; with an empty set the main thread exits with code 1 and nothing is
\* ever started; with a non-empty set it never exits with code 1 and its step
\* from the test leads to the set-up of round 1, which spawns the workers and
\* the meter.
C12_EmptySetExitsOneElseARoundStarts ==
  /\ [](cpc # "new" =>
          (patterns = <<>> <=>
             \A i \in 1..Len(raw_patterns) :
               raw_patterns[i] = <<>> \/ ~parse(raw_patterns[i]).ok))
  /\ []((patterns = <<>> /\ cpc # "new") => (cpc \in {"check_empty", "exit1"} /\ NothingStarted))
  /\ [](cpc = "exit1" => patterns = <<>>)
  /\ [][(cpc = "check_empty" /\ cpc' # cpc) =>
          cpc' = (IF patterns = <<>> THEN "exit1" ELSE "round_start")]_vars
  /\ [][(cpc = "round_start" /\ round = 1 /\ cpc' # cpc) =>
          /\ cpc' = "poll"
          /\ \A w \in Spawned : wpc'[w] = "check"
          /\ mpc'[1] = "sleep"]_vars

\* C12 happens: patterns were given, none of them was accepted, exit code 1.
C12_AllRejectedExitOne ==
  /\ cpc = "exit1"
  /\ \E i \in 1..Len(raw_patterns) : raw_patterns[i] # <<>>

\* A hex digit in either case: [0-9A-Fa-f].
IsHexDigitAnyCase(c) == (c >= 48 /\ c <= 57) \/ (c >= 65 /\ c <= 70) \/ (c >= 97 /\ c <= 102)

\* C13: parse accepts a string if and only if it has 1 to 40 characters, all
\* of them hex digits once lowercased, and then returns the string with
\* 'A'..'F' replaced by 'a'..'f'; every other string is an error.
C13_ParseAcceptsLowercasedHex ==
  ppc = "parsed" =>
    /\ parsed.ok <=>
         /\ Len(string) >= 1
         /\ Len(string) <= 40
         /\ \A i \in 1..Len(string) : IsHexDigitAnyCase(string[i])
    /\ parsed.ok =>
         parsed.value =
           [i \in 1..Len(string) |->
              IF string[i] >= 65 /\ string[i] <= 70 THEN string[i] + 32 ELSE string[i]]
    /\ ~parsed.ok => parsed.value = <<>>

\* C13 happens: "ABC" was parsed and accepted as "abc".
C13_UpperCaseAccepted ==
  /\ ppc = "parsed"
  /\ string = Str_ABC
  /\ parsed = [ok |-> TRUE, value |-> Str_abc]

\* C14: the String pattern set is the strictly ascending sequence of the
\* distinct parsed patterns (each one kept, also when it is a prefix of
\* another, none added); the Regex pattern set is the sequence of the parsed
\* patterns as supplied.
C14_SortedDistinctOrAsSupplied ==
  /\ ppc = "built" =>
       /\ \A i \in 1..(Len(patterns) - 1) : StrCmp(patterns[i], patterns[i + 1]) < 0
       /\ Range(patterns) = Range(vec)
  /\ ppc \in {"built_regex", "called_regex"} => patterns = vec

\* C14 happens: "abc", "abc", "ab" became "ab", "abc".
C14_DuplicateRemovedPrefixKept ==
  /\ ppc = "built"
  /\ vec = <<Str_abc, Str_abc, <<97, 98>> >>
  /\ patterns = << <<97, 98>>, Str_abc>>

\* The patterns pushed, computed raw pattern by raw pattern with the parse of
\* the mode.
RECURSIVE ExpectedVec(_, _)
ExpectedVec(raw, regexp) ==
  IF raw = <<>> THEN <<>>
  ELSE LET r == IF regexp THEN Regex_parse(Head(raw)) ELSE parse(Head(raw))
       IN  (IF Head(raw) # <<>> /\ r.ok THEN <<r.value>> ELSE <<>>)
             \o ExpectedVec(Tail(raw), regexp)

RECURSIVE ExpectedSkipped(_, _)
ExpectedSkipped(raw, regexp) ==
  IF raw = <<>> THEN <<>>
  ELSE LET r == IF regexp THEN Regex_parse(Head(raw)) ELSE parse(Head(raw))
       IN  (IF Head(raw) # <<>> /\ ~r.ok THEN <<Head(raw)>> ELSE <<>>)
             \o ExpectedSkipped(Tail(raw), regexp)

\* C16: PatternVec::new always returns, and before post-processing its vector
\* holds, in order, the parse results of the raw patterns that are not empty and
\* parse; the non-empty raw patterns that do not parse are the ones reported.
C16_InvalidPatternsSkipped ==
  /\ ppc = "built" =>
       /\ vec = ExpectedVec(raw_patterns, FALSE)
       /\ skipped = ExpectedSkipped(raw_patterns, FALSE)
  /\ ppc \in {"built_regex", "called_regex"} =>
       /\ vec = ExpectedVec(raw_patterns, TRUE)
       /\ skipped = ExpectedSkipped(raw_patterns, TRUE)

\* C16 happens: an invalid raw pattern between two valid ones.
C16_InvalidBetweenValid ==
  /\ ppc = "built"
  /\ raw_patterns = <<Str_ABC, Str_xyz, <<97, 98>> >>
  /\ vec = <<Str_abc, <<97, 98>> >>
  /\ skipped = <<Str_xyz>>

\* The literal is a substring of the text.
OccursIn(literal, text) ==
  \E offset \in 0..(Len(text) - Len(literal)) :
    SubSeq(text, offset + 1, offset + Len(literal)) = literal

\* C15: the Regex contains returns true if and only if some pattern of the
\* set matches the address; a pattern of literal characters matches exactly
\* the addresses it occurs in, at any offset.
C15_RegexContainsIffSomeMatch ==
  ppc = "called_regex" =>
    /\ found <=> \E i \in 1..Len(patterns) : Regex_matches(patterns[i], address)
    /\ (\A i \in 1..Len(patterns) : \A j \in 1..Len(patterns[i]) : IsLiteral(patterns[i][j])) =>
         (found <=> \E i \in 1..Len(patterns) : OccursIn(to_lowercase(patterns[i]), address))

\* C15 happens: the first pattern does not match, a later one matches inside
\* the address, and no pattern matches at its start.
C15_MatchInsideByLaterPattern ==
  /\ ppc = "called_regex"
  /\ found
  /\ Len(patterns) >= 2
  /\ ~Regex_matches(patterns[1], address)
  /\ \A i \in 1..Len(patterns) : ~Regex_matches_at(patterns[i], address, 0)

RoundSetUpDone == cpc \notin {"new", "check_empty", "exit1", "round_start"}

\* The workers of the current round that have not run their decrement.
NotDecremented == {w \in Spawned : wpc[w] # "done"}

\* C18: once a round is set up its countdown is the number of its workers
\* that have not run the decrement of line 374, which a worker runs once, out
\* of its loop; the countdown is never negative, is zero only when every
\* worker is done, and the countdown of a finished round is zero.
C18_CountdownCountsWorkersNotDone ==
  /\ \A r \in Rounds : working_threads[r] >= 0 /\ working_threads[r] <= thread_count
  /\ RoundSetUpDone =>
       /\ working_threads[round] = Cardinality(NotDecremented)
       /\ working_threads[round] = 0 <=> \A w \in Spawned : wpc[w] = "done"
  /\ \A r \in Rounds : r < round => working_threads[r] = 0

\* C18 happens: of two workers one ran its decrement, the other is still in
\* its loop.
C18_OneOfTwoDecremented ==
  /\ thread_count = 2
  /\ working_threads[round] = 1
  /\ wpc[1] = "done"
  /\ wpc[2] = "generate"

\* Thread t waits for thread u: its next step takes a lock that u holds.
WaitsFor(t, u) == t # u /\ Wants(t) \cap Holds(u) # {}

\* The order in which locks are taken while another is held: the counter or
\* the slot first, then the sample buffer, then the writer.
LockRank(l) ==
  CASE l[1] = "buffer_writer" -> 3
    [] l[1] = "sync_buffer" -> 2
    [] OTHER -> 1

\* C19: no set of threads waits in a circle, each for a lock that another of
\* them holds; no thread takes a lock it already holds; and a thread that
\* holds a lock takes only locks later in the order counter or slot, sample
\* buffer, writer.
C19_NoCircularWait ==
  /\ \A D \in SUBSET ThreadIds :
       D # {} => \E t \in D : \A u \in D : ~WaitsFor(t, u)
  /\ \A t \in ThreadIds : Wants(t) \cap Holds(t) = {}
  /\ \A t \in ThreadIds : \A h \in Holds(t) : \A l \in Wants(t) : LockRank(h) < LockRank(l)

\* C19 happens: a worker waits for the counter, held by the meter, which waits
\* for the sample buffer, held by the main thread, which is about to take the
\* writer.
C19_ChainOfWaits ==
  /\ WaitsFor(WorkerThread(1), MeterThread(round))
  /\ WaitsFor(MeterThread(round), MainThread)
  /\ BufferWriterLock \in Wants(MainThread)

\* C20: every sample the meter publishes while the main thread is polling is
\* printed exactly once: a sample that is published and not yet printed is
\* neither cleared nor replaced by a step, and a sample that was printed is
\* not printed again.
C20_EveryPolledSampleIsPrintedOnce ==
  [][\A r \in Rounds :
       /\ sample_state[r] = "fresh" =>
            \/ sample_state'[r] = "printed"
            \/ sample_state'[r] = "fresh" /\ ~(mpc[r] = "publish" /\ mpc'[r] = "reset")
       /\ sample_state[r] = "printed" => sample_state'[r] # "printed" \/ cpc' = cpc]_vars

====
